---- MODULE Spec2Model ----
(***************************************************************************)
(* A model of the ONNX frontend for Relax                                  *)
(* (python/tvm/relax/frontend/onnx_frontend.py): converter resolution by   *)
(* opset (OnnxOpConverter.get_converter), the import pass of GraphProto    *)
(* (from_onnx and its helpers) and the Relay bridge                        *)
(* (_relay_input_adapter, _relay_output_adapter).                          *)
(***************************************************************************)
EXTENDS Integers, Sequences, FiniteSets, TLC

\* ------------------------------------------------------------------ bounds
\* Largest operator-set version registered or requested in the resolution model.
MaxVersion == 5
\* Most nodes in a graph.
MaxNodes == 2
\* Most initializers in a graph.
MaxInits == 2
\* Most declared inputs in a graph.
MaxInputs == 2
\* Most input references of a node.
MaxNodeInputs == 1
\* Most declared outputs of a node.
MaxNodeOutputs == 2
\* Most components of an aggregate a converter returns.
MaxArity == 2
\* Most declared outputs of a graph.
MaxGraphOutputs == 2
\* Most inputs of a node handed to the Relay bridge.
MaxBridgeInputs == 2
\* Most bindings of a translated function body ahead of its closing ones.
MaxBindings == 2
\* Most attribute records of a node.
MaxAttrs == 2
\* Most variant fields populated in one attribute record.
MaxPopulated == 2
\* Most inputs of a node whose converter needs constant inputs.
MaxAuxInputs == 5
\* Most entries of model.opset_import.
MaxOpsetImports == 2
\* Most dimensions of the shape of a declared input.
MaxRank == 1
\* Most inputs of a node whose input list is indexed.
MaxIndexedInputs == 3
\* The largest index a converter reads its inputs at.
MaxItem == 4
\* Most initializers, nodes and declared outputs of a graph imported twice.
MaxTwice == 1
\* Most declared inputs of a graph imported twice.
MaxTwiceInputs == 2
\* The number of imports of the one graph.
MaxImports == 2

\* The tensor names the graphs explored draw from.
Names == {"a", "b"}

VARIABLES
    \* OnnxOpConverter.get_converter: the class's registered versions, the
    \* requested opset and what the call produced
    convVersions, convOpset, convResult,
    \* GraphProto of one import call
    pc,          \* the step from_onnx is at
    self_opset,       \* self.opset
    ops,         \* op_type of the nodes of graph.node not constructed yet
    _nodes,      \* self._nodes: name -> bound value
    _inputs,     \* self._inputs, in insertion order
    nInit,       \* entries of graph.initializer read so far
    nIn,         \* entries of graph.input read so far
    idx,         \* position in graph.node of the node to process next
    err,         \* the exception that ended the import
    failedIn,    \* the step that raised it
    node,        \* the node processed last
    invoked,     \* positions of the nodes whose converter has been invoked
    ret,         \* the function's return value
    reported,    \* the operator names the unsupported-operators error lists
    used,        \* the initializers some node has taken as an input
    input_warnings, \* the declared inputs warnings.warn was called for
    input_seen,  \* the declared input read last, as get_info gave it
    graph_output, \* the names of graph.output
    params,      \* the parameter list of the emitted function
    \* one call of the Relay bridge from _convert_operator
    bpc,            \* the step the bridge is at
    berr,           \* the exception that left the bridge
    _current,       \* relax.BlockBuilder._current
    caller_current, \* what _current was when the bridge was called
    prev_bb,        \* the local prev_bb of _relay_output_adapter
    relax_inputs,   \* the inputs of the node, as Relax values
    relay_inputs,   \* the Relay values that mirror them
    relax_mod,      \* the main function of the module from_relay returned
    context_funcs,  \* functions added to the module of self.bb by the bridge
    emitted,        \* bindings the bridge emitted into self.bb, in order
    sym,            \* the value the bridge returned
    \* one call of _parse_attr
    attr_pc,        \* the step _parse_attr is at
    attrs,          \* the local dict attrs
    attr_record,    \* the record read last
    attr_err,       \* the exception that left _parse_attr
    attr_count,     \* records read so far
    attr_result,    \* the dict returned
    \* one call of a converter that needs compile-time-constant inputs
    aux_op,         \* the operator of the node
    aux_inputs,     \* what the inputs of the node are
    aux_mode,       \* the attribute "mode" of a Pad node
    aux_result,     \* what the call ended in
    \* the entry point from_onnx(model, ..., opset)
    opset_pc,       \* where the entry point stands
    has_opset_import, \* whether the model has the attribute opset_import
    opset_import,   \* model.opset_import
    opset_arg,      \* the argument opset as the caller gave it
    opset_value,    \* the local opset
    opset_in_model, \* the local opset_in_model
    opset_scan,     \* the position of the loop in model.opset_import
    opset_warned,   \* whether warnings.warn was called
    g_opset,        \* self.opset of the GraphProto g
    resolved,       \* the converter resolutions made during the import
    \* the input list of one node and the reads of it
    ix_pc,          \* where the node stands
    ix_env,         \* self._nodes, for the names the node refers to
    ix_refs,        \* node.input
    ix_inputs,      \* the onnx_input list built for the node
    ix_item,        \* the index read last
    ix_result,      \* what the read returned
    \* one model imported more than once
    tw_pc,          \* whether a model is loaded
    tw_graph,       \* model.graph
    tw_opset,       \* the opset the imports run with
    tw_instance,    \* the GraphProto of the import made last
    tw_results      \* the structure of what each import gave, in order

convVars == <<convVersions, convOpset, convResult>>

importVars == <<pc, self_opset, ops, _nodes, _inputs, nInit, nIn, idx, err,
                failedIn, node, invoked, ret, reported, used, input_warnings,
                input_seen, graph_output, params>>

bridgeVars == <<bpc, berr, _current, caller_current, prev_bb, relax_inputs,
                relay_inputs, relax_mod, context_funcs, emitted, sym>>

attrVars == <<attr_pc, attrs, attr_record, attr_err, attr_count, attr_result>>

auxVars == <<aux_op, aux_inputs, aux_mode, aux_result>>

opsetVars == <<opset_pc, has_opset_import, opset_import, opset_arg, opset_value, opset_in_model,
              opset_scan, opset_warned, g_opset, resolved>>

indexVars == <<ix_pc, ix_env, ix_refs, ix_inputs, ix_item, ix_result>>

twiceVars == <<tw_pc, tw_graph, tw_opset, tw_instance, tw_results>>

vars == <<convVersions, convOpset, convResult,
          pc, self_opset, ops, _nodes, _inputs, nInit, nIn, idx, err,
          failedIn, node, invoked, ret, reported, used, input_warnings,
                input_seen, graph_output, params,
          bpc, berr, _current, caller_current, prev_bb, relax_inputs,
          relay_inputs, relax_mod, context_funcs, emitted, sym,
          attr_pc, attrs, attr_record, attr_err, attr_count, attr_result,
          aux_op, aux_inputs, aux_mode, aux_result,
          opset_pc, has_opset_import, opset_import, opset_arg, opset_value, opset_in_model,
          opset_scan, opset_warned, g_opset, resolved,
          ix_pc, ix_env, ix_refs, ix_inputs, ix_item, ix_result,
          tw_pc, tw_graph, tw_opset, tw_instance, tw_results>>

\* ------------------------------------------------- Python list primitives
\* s[i] of a Python list, i an integer index: a negative index counts from
\* the end of the list.
PyIndex(s, i) == IF i < 0 THEN s[Len(s) + i + 1] ELSE s[i + 1]

\* Insertion of x into an ascending sequence, after its equals.
RECURSIVE InsertSorted(_, _)
InsertSorted(x, s) ==
    IF s = <<>> THEN <<x>>
    ELSE IF x < Head(s) THEN <<x>> \o s
    ELSE <<Head(s)>> \o InsertSorted(x, Tail(s))

\* sorted(s): the elements of s in ascending order, repetitions kept.
RECURSIVE sorted(_)
sorted(s) == IF s = <<>> THEN <<>> ELSE InsertSorted(Head(s), sorted(Tail(s)))

\* The members of a finite set of integers, listed in some order.
RECURSIVE SetToSeq(_)
SetToSeq(S) ==
    IF S = {} THEN <<>>
    ELSE LET x == CHOOSE y \in S : TRUE IN <<x>> \o SetToSeq(S \ {x})

SetMax(S) == CHOOSE x \in S : \A y \in S : y <= x
SetMin(S) == CHOOSE x \in S : \A y \in S : x <= y

\* ------------------------------------------ OnnxOpConverter.get_converter
\* The outcome of a resolution that raises NotImplementedError.
NotImplemented == 0

\* Mutant of get_converter: takes the entry at the position of the requested
\* opset itself instead of the one before it.
get_converter_at_opset(V, opset) ==
    LET versions == sorted(SetToSeq(V) \o <<opset>>)
        last == SetMax({i \in 0..(Len(versions) - 1) : versions[i + 1] = opset})
        version == PyIndex(versions, last)
    IN  IF version \in V THEN version ELSE NotImplemented

\* cls.get_converter(opset) for a class whose _impl_v<n> methods are the
\* versions V: the version of the method returned, or NotImplemented.
get_converter(V, opset) ==
    LET versions == sorted(SetToSeq(V) \o <<opset>>)
        last == SetMax({i \in 0..(Len(versions) - 1) : versions[i + 1] = opset})
        version == PyIndex(versions, last - 1)
    IN  IF version \in V THEN version ELSE NotImplemented

ConvInit ==
    /\ convVersions = {}
    /\ convOpset = 0
    /\ convResult = NotImplemented

\* One call of get_converter on some converter class with some opset.
Resolve ==
    \E V \in SUBSET (1..MaxVersion), r \in 1..MaxVersion :
        /\ convVersions' = V
        /\ convOpset' = r
        /\ convResult' = get_converter(V, r)
        /\ UNCHANGED <<importVars, bridgeVars, attrVars, auxVars, opsetVars, indexVars, twiceVars>>

ConvNext == Resolve

\* ------------------------------------------------------------- GraphProto
\* All sequences over S of length lo..hi.
SeqsOf(S, lo, hi) == UNION {[1..n -> S] : n \in lo..hi}

\* The operator tags of the graphs explored: converters of this frontend,
\* a converter of the Relay frontend, and two tags no catalog knows.
Tags == {"Add", "Split", "MaxPool", "FooOp", "BarOp"}

\* The keys of _get_convert_map(opset) among Tags.
_get_convert_map == {"Add", "Split", "MaxPool"}

\* The keys whose class is a converter of the Relay frontend
\* (issubclass(convert_class, RelayOnnxOpConverter)).
RelayOps == {"MaxPool"}

\* The versions of the implementations of a converter class of the Relay
\* frontend (tvm.relay.frontend.onnx).
RelayImplVersions(tag) == {1}

\* The versions n of the _impl_v<n> methods of the class of a tag.
ImplVersions(tag) ==
    CASE tag = "Add" -> {13}
      [] tag = "Split" -> {1, 13}
      [] tag \in RelayOps -> RelayImplVersions(tag)
      [] OTHER -> {}

\* The opset versions an import is run with.
Opsets == {9, 13}

\* Values of the environment. The name no step has bound:
Unbound == [kind |-> "unbound", node |-> 0, item |-> 0, name |-> ""]
\* relax.const(array) of the i-th initializer read
ConstOf(i, n) == [kind |-> "const", node |-> 0, item |-> i, name |-> n]
\* new_var(i_name, ...) of the i-th declared input read
ParamOf(i, n) == [kind |-> "var", node |-> 0, item |-> i, name |-> n]
\* the value a converter returned for node i, when it is no aggregate
ExprOf(i) == [kind |-> "expr", node |-> i, item |-> 0, name |-> ""]
\* the relax.Tuple of m fields that stands for the result of node i
TupleOf(i, m) == [kind |-> "tuple", node |-> i, item |-> m, name |-> ""]
\* op[k] of that tuple, k counted from 0
FieldOf(i, k) == [kind |-> "field", node |-> i, item |-> k, name |-> ""]

\* What invoking the converter of a tag can produce: a value that is no
\* aggregate ("expr"), a relax.Tuple of m fields ("Tuple"), a value whose
\* checked_type is a TupleType of m fields ("tupletyped"), or an exception.
ConverterOutcomes(tag, impl) ==
    CASE tag = "Add" -> {[kind |-> "expr", m |-> 1]}
      [] tag = "Split" ->
            {[kind |-> "tupletyped", m |-> m] : m \in 1..MaxArity}
            \cup (IF impl = 13 THEN {[kind |-> "raise", m |-> 0]} ELSE {})
      [] tag = "MaxPool" ->
            {[kind |-> "expr", m |-> 1], [kind |-> "raise", m |-> 0]}
            \cup {[kind |-> "Tuple", m |-> m] : m \in 1..MaxArity}
      [] OTHER -> {}

NoNode == [op_type |-> "", output |-> <<>>, conv |-> [kind |-> "none", m |-> 0]]

NoInput == [name |-> "", dims |-> <<>>, in_shape |-> FALSE, registered |-> FALSE]

\* GraphProto.__init__
ImportInit ==
    /\ pc = "idle"
    /\ self_opset = 0
    /\ ops = <<>>
    /\ _nodes = [n \in Names |-> Unbound]
    /\ _inputs = <<>>
    /\ nInit = 0
    /\ nIn = 0
    /\ idx = 1
    /\ err = "none"
    /\ failedIn = "none"
    /\ node = NoNode
    /\ invoked = {}
    /\ ret = Unbound
    /\ reported = {}
    /\ used = {}
    /\ input_warnings = {}
    /\ input_seen = NoInput
    /\ graph_output = <<>>
    /\ params = <<>>

\* An exception leaves from_onnx: nothing else of the import runs.
Raise(e) ==
    /\ pc' = "failed"
    /\ err' = e
    /\ failedIn' = pc

\* from_onnx is entered with a graph and an opset.
from_onnx ==
    /\ pc = "idle"
    /\ \E o \in Opsets : self_opset' = o
    /\ pc' = "initializers"
    /\ UNCHANGED <<ops, _nodes, _inputs, nInit, nIn, idx, err, failedIn,
                   node, invoked, ret, reported, used, input_warnings, input_seen, graph_output, params>>
    /\ UNCHANGED <<convVars, bridgeVars, attrVars, auxVars, opsetVars, indexVars, twiceVars>>

\* init_tensor.name.strip()
strip(n) == IF n = " " THEN "" ELSE n

\* One iteration of the loop of _parse_graph_initializers.
_parse_graph_initializers ==
    /\ pc = "initializers"
    /\ UNCHANGED <<convVars, bridgeVars, attrVars, auxVars, opsetVars, indexVars, twiceVars>>
    /\ nInit < MaxInits
    /\ \E n \in Names \cup {"", " "} :
        IF strip(n) = ""
        THEN /\ Raise("ValueError")
             /\ UNCHANGED <<_nodes, nInit>>
        ELSE /\ _nodes' = [_nodes EXCEPT ![n] = ConstOf(nInit + 1, n)]
             /\ nInit' = nInit + 1
             /\ UNCHANGED <<pc, err, failedIn>>
    /\ UNCHANGED <<self_opset, ops, _inputs, nIn, idx, node, invoked, ret,
                   reported, used, input_warnings, input_seen, graph_output, params>>

\* graph.initializer is exhausted.
_parse_graph_initializers_end ==
    /\ pc = "initializers"
    /\ UNCHANGED <<convVars, bridgeVars, attrVars, auxVars, opsetVars, indexVars, twiceVars>>
    /\ pc' = "inputs"
    /\ UNCHANGED <<self_opset, ops, _nodes, _inputs, nInit, nIn, idx, err,
                   failedIn, node, invoked, ret, reported, used, input_warnings, input_seen, graph_output,
                   params>>

\* Mutant of already_bound: every declared input is taken as new.
never_bound(env, i_name) == FALSE

\* i_name in self._nodes
already_bound(env, i_name) == env[i_name] # Unbound

\* d[key] = v on a dict kept as the list of its values in insertion order,
\* each value carrying its key as its name: a key that is present keeps its
\* place.
DictSet(d, key, v) ==
    IF \E k \in DOMAIN d : d[k].name = key
    THEN [k \in DOMAIN d |-> IF d[k].name = key THEN v ELSE d[k]]
    ELSE Append(d, v)

\* The dim_value of a dimension of a declared input: 0 when the dimension
\* carries no value (it may carry a name, dim_param).
DimValues == {0, 2}

\* The dimension lists a declared input can carry.
InputDims == SeqsOf(DimValues, 0, MaxRank)

\* shape of get_info: a dimension whose value is None or 0 becomes
\* tvm.tir.Var("d", "int64"), any other stays the integer it is.
get_info_shape(dims) ==
    [k \in DOMAIN dims |-> IF dims[k] = 0 THEN [var |-> TRUE, value |-> 0]
                           ELSE [var |-> FALSE, value |-> dims[k]]]

\* What str prints for an element of i_shape: the name of the variable of
\* get_info, "d", or the digits of an integer (one digit here).
str_dim(d) == IF d.var THEN "d" ELSE "2"

\* "?" in str(i_shape)
unknown_in_str(i_shape) == \E k \in DOMAIN i_shape : str_dim(i_shape[k]) = "?"

\* One iteration of the loop of _parse_graph_input for the declared input
\* i_name: the binding of the name.
read_input(i_name) ==
    /\ pc = "inputs"
    /\ UNCHANGED <<convVars, bridgeVars, attrVars, auxVars, opsetVars, indexVars, twiceVars>>
    /\ nIn < MaxInputs
    /\ nIn' = nIn + 1
    /\ IF already_bound(_nodes, i_name)
       THEN UNCHANGED <<_nodes, _inputs>>
       ELSE /\ _nodes' = [_nodes EXCEPT ![i_name] = ParamOf(nIn + 1, i_name)]
            /\ _inputs' = DictSet(_inputs, i_name, ParamOf(nIn + 1, i_name))
    /\ UNCHANGED <<pc, self_opset, ops, nInit, idx, err, failedIn, node,
                   invoked, ret, reported, used, graph_output, params>>

\* One iteration of the loop of _parse_graph_input.
_parse_graph_input ==
    \E i_name \in Names :
        read_input(i_name) /\ UNCHANGED <<input_warnings, input_seen>>

\* The same iteration, observed: what get_info gave for the input, whether
\* the caller's shape dict names it, and the warning of lines 981-987.
_parse_graph_input_observed ==
    \E i_name \in Names, dims \in InputDims, in_shape \in BOOLEAN :
        LET i_shape == get_info_shape(dims)
            registered == ~already_bound(_nodes, i_name)
        IN  /\ read_input(i_name)
            /\ input_seen' = [name |-> i_name, dims |-> dims, in_shape |-> in_shape,
                              registered |-> registered]
            /\ input_warnings' =
                  IF registered /\ ~in_shape /\ unknown_in_str(i_shape)
                  THEN input_warnings \cup {i_name}
                  ELSE input_warnings

\* graph.input is exhausted.
_parse_graph_input_end ==
    /\ pc = "inputs"
    /\ UNCHANGED <<convVars, bridgeVars, attrVars, auxVars, opsetVars, indexVars, twiceVars>>
    /\ pc' = "check"
    /\ UNCHANGED <<self_opset, ops, _nodes, _inputs, nInit, nIn, idx, err,
                   failedIn, node, invoked, ret, reported, used, input_warnings, input_seen, graph_output,
                   params>>

\* Mutant of unsupported_ops: the scan stops at the first unknown tag.
unsupported_ops_first(graph_ops) ==
    LET U == {j \in DOMAIN graph_ops :
                 graph_ops[j] \notin _get_convert_map /\ graph_ops[j] # "Constant"}
    IN  IF U = {} THEN {} ELSE {graph_ops[CHOOSE j \in U : \A k \in U : j <= k]}

\* Mutant of unsupported_ops: only the first node of the graph is looked at.
unsupported_ops_head(graph_ops) ==
    IF graph_ops # <<>> /\ Head(graph_ops) \notin _get_convert_map
                       /\ Head(graph_ops) # "Constant"
    THEN {Head(graph_ops)}
    ELSE {}

\* The set unsupported_ops of _check_for_unsupported_ops.
unsupported_ops(graph_ops) ==
    {graph_ops[i] : i \in {j \in DOMAIN graph_ops :
        graph_ops[j] \notin _get_convert_map /\ graph_ops[j] # "Constant"}}

\* graph.node is read here for the first time: its operator tags.
_check_for_unsupported_ops ==
    /\ pc = "check"
    /\ \E graph_ops \in SeqsOf(Tags, 0, MaxNodes) :
        /\ ops' = graph_ops
        /\ IF unsupported_ops(graph_ops) # {}
           THEN /\ Raise("OpNotImplemented")
                /\ reported' = unsupported_ops(graph_ops)
           ELSE /\ pc' = "nodes"
                /\ UNCHANGED <<err, failedIn, reported>>
    /\ UNCHANGED <<convVars, bridgeVars, attrVars, auxVars, opsetVars, indexVars, twiceVars>>
    /\ UNCHANGED <<self_opset, _nodes, _inputs, nInit, nIn, idx,
                   node, invoked, ret, used, input_warnings, input_seen, graph_output, params>>

\* The number of values a converter result provides (outputs_num).
outputs_num(conv) == IF conv.kind = "expr" THEN 1 ELSE conv.m

\* The value of op after the unpacking of _construct_nodes: the converter's
\* value itself, or the relax.Tuple that is or replaces it.
OpValue(i, conv) == IF conv.kind = "expr" THEN ExprOf(i) ELSE TupleOf(i, conv.m)

\* self._nodes after "for k, i in zip(list(outputs), range(len(outputs))):
\* self._nodes[k] = op[i]" has run over the first n names.
RECURSIVE BindFields(_, _, _, _)
BindFields(env, i, outputs, n) ==
    IF n = 0 THEN env
    ELSE [BindFields(env, i, outputs, n - 1) EXCEPT ![outputs[n]] = FieldOf(i, n - 1)]

\* self._nodes after the output binding of _construct_nodes, for a result
\* that passed the arity assertion and a node with at least one output name
\* when the result is a single value.
BindOutputs(env, i, outputs, conv) ==
    IF outputs_num(conv) = 1
    THEN [env EXCEPT ![outputs[1]] = OpValue(i, conv)]
    ELSE BindFields(env, i, outputs, Len(outputs))

\* The input references of a node that self._nodes does not hold.
UndefinedRefs(env, input) ==
    {k \in DOMAIN input : input[k] # "" /\ env[input[k]] = Unbound}

\* Mutant of ArityOk: the assertion is taken out.
ArityUnchecked(outputs, conv) == TRUE

\* The assertion of _construct_nodes: len(outputs) <= outputs_num.
ArityOk(outputs, conv) == Len(outputs) <= outputs_num(conv)

\* Mutant of InputsResolve: an unknown reference is passed on as absent.
InputsResolveLenient(env, input) == TRUE

\* Whether "inputs.append(self._nodes[i])" succeeds for every non-empty
\* reference of the node.
InputsResolve(env, input) == UndefinedRefs(env, input) = {}

\* The initializers among the values "inputs.append(self._nodes[i])" collects
\* for a node.
InitializersAmong(env, input) ==
    {env[input[k]] : k \in {j \in DOMAIN input :
                                input[j] # "" /\ env[input[j]].kind = "const"}}

\* The input reference lists a node can carry ("" marks an absent input).
NodeInputLists == SeqsOf(Names \cup {""}, 0, MaxNodeInputs)

\* How self._parse_attr(node.attribute) can end for a node: with a dict
\* ("none") or with one of its exceptions.
AttrOutcomes == {"none", "AssertionError", "NotImplementedError", "ValueError"}

\* The first half of one iteration of the loop of _construct_nodes, for a
\* node whose input references are `input`: the attributes are decoded and
\* the input list is built from self._nodes. The loop variable has left the
\* node before, and the outputs of this one are not read yet.
populate(input) ==
    /\ pc = "nodes"
    /\ UNCHANGED <<convVars, bridgeVars, attrVars, auxVars, opsetVars, indexVars, twiceVars>>
    /\ ops # <<>>
    /\ \E e \in AttrOutcomes :
        IF e # "none" \/ ~InputsResolve(_nodes, input)
        THEN /\ Raise(IF e # "none" THEN e ELSE "KeyError")
             /\ \E outputs \in IF e # "none" THEN {<<>>}
                               ELSE SeqsOf(Names, 0, MaxNodeOutputs) :
                    node' = [op_type |-> Head(ops), output |-> outputs,
                             conv |-> [kind |-> "none", m |-> 0]]
        ELSE /\ pc' = "convert"
             /\ node' = NoNode
             /\ UNCHANGED <<err, failedIn>>
    /\ UNCHANGED <<self_opset, ops, _nodes, _inputs, nInit, nIn, idx, invoked, ret,
                   reported, input_warnings, input_seen, graph_output, params>>

populate_inputs(input) == populate(input) /\ UNCHANGED used

\* The same step, observed: the initializers the node takes are recorded.
populate_inputs_observed(input) ==
    /\ populate(input)
    /\ used' = IF pc' = "convert"
               THEN used \cup InitializersAmong(_nodes, input)
               ELSE used

\* The node at position idx of graph.node is reached.
_construct_nodes == \E input \in NodeInputLists : populate_inputs(input)

_construct_nodes_observed ==
    \E input \in NodeInputLists : populate_inputs_observed(input)

\* The second half of the iteration: _convert_operator and the binding of
\* the node's outputs.
_convert_operator ==
    /\ pc = "convert"
    /\ UNCHANGED <<convVars, bridgeVars, attrVars, auxVars, opsetVars, indexVars, twiceVars>>
    /\ LET op_name == Head(ops)
           impl == get_converter(ImplVersions(op_name), self_opset)
           nd(outputs, c) == [op_type |-> op_name, output |-> outputs, conv |-> c]
       IN
       IF op_name \notin _get_convert_map \/ impl = NotImplemented
       THEN /\ Raise("NotImplementedError")
            /\ node' = nd(<<>>, [kind |-> "none", m |-> 0])
            /\ UNCHANGED <<ops, _nodes, idx, invoked>>
       ELSE \E conv \in ConverterOutcomes(op_name, impl) :
            /\ invoked' = invoked \cup {idx}
            /\ IF conv.kind = "raise"
               THEN /\ Raise("ConverterError")
                    /\ node' = nd(<<>>, conv)
                    /\ UNCHANGED <<ops, _nodes, idx>>
               ELSE \E outputs \in SeqsOf(Names, 0, MaxNodeOutputs) :
                    /\ node' = nd(outputs, conv)
                    /\ IF ~ArityOk(outputs, conv)
                       THEN /\ Raise("AssertionError")
                            /\ UNCHANGED <<ops, _nodes, idx>>
                       ELSE IF outputs_num(conv) = 1 /\ Len(outputs) = 0
                       THEN /\ Raise("IndexError")
                            /\ UNCHANGED <<ops, _nodes, idx>>
                       ELSE /\ _nodes' = BindOutputs(_nodes, idx, outputs, conv)
                            /\ idx' = idx + 1
                            /\ ops' = Tail(ops)
                            /\ pc' = "nodes"
                            /\ UNCHANGED <<err, failedIn>>
    /\ UNCHANGED <<self_opset, _inputs, nInit, nIn, ret, reported, used, input_warnings,
                   input_seen,
                   graph_output, params>>

\* graph.node is exhausted: the loop variable is of no use any more.
_construct_nodes_end ==
    /\ pc = "nodes"
    /\ UNCHANGED <<convVars, bridgeVars, attrVars, auxVars, opsetVars, indexVars, twiceVars>>
    /\ ops = <<>>
    /\ pc' = "outputs"
    /\ node' = NoNode
    /\ UNCHANGED <<self_opset, ops, _nodes, _inputs, nInit, nIn, idx,
                   err, failedIn, invoked, ret, reported, used, input_warnings,
                   input_seen,
                   graph_output, params>>

\* Mutant of assemble_outputs: a single output is wrapped as well.
outputs_always_wrapped(outputs) ==
    [kind |-> "outputs", node |-> 0, item |-> Len(outputs), name |-> "",
     fields |-> outputs]

\* relax.Tuple(outputs) of from_onnx.
TupleOfOutputs(outputs) ==
    [kind |-> "outputs", node |-> 0, item |-> Len(outputs), name |-> "",
     fields |-> outputs]

\* outputs[0] if len(outputs) == 1 else relax.Tuple(outputs)
assemble_outputs(outputs) ==
    IF Len(outputs) = 1 THEN outputs[1] ELSE TupleOfOutputs(outputs)

\* param_list = [v for k, v in self._inputs.items()]
param_list(inputs) == inputs

\* The rest of from_onnx: the outputs are looked up and the function is
\* emitted.
emit_func_output ==
    /\ pc = "outputs"
    /\ UNCHANGED <<convVars, bridgeVars, attrVars, auxVars, opsetVars, indexVars, twiceVars>>
    /\ \/ /\ \E output \in SeqsOf(Names, 0, MaxGraphOutputs) :
                  \E k \in DOMAIN output : _nodes[output[k]] = Unbound
          /\ Raise("KeyError")
          /\ UNCHANGED <<graph_output, ret, params>>
       \/ \E output \in SeqsOf(Names, 0, MaxGraphOutputs) :
          /\ \A k \in DOMAIN output : _nodes[output[k]] # Unbound
          /\ graph_output' = output
          /\ ret' = assemble_outputs([k \in DOMAIN output |-> _nodes[output[k]]])
          /\ params' = param_list(_inputs)
          /\ pc' = "done"
          /\ UNCHANGED <<err, failedIn>>
    /\ UNCHANGED <<self_opset, ops, _nodes, _inputs, nInit, nIn, idx, node,
                   invoked, reported, used, input_warnings, input_seen>>

ImportNext ==
    \/ from_onnx
    \/ _parse_graph_initializers
    \/ _parse_graph_initializers_end
    \/ _parse_graph_input
    \/ _parse_graph_input_end
    \/ _check_for_unsupported_ops
    \/ _construct_nodes
    \/ _convert_operator
    \/ _construct_nodes_end
    \/ emit_func_output

\* ------------------------------------------------------- the Relay bridge
\* The name hints Relax variables carry among the inputs explored: one a
\* graph name, one a name block builders give to the variables they emit.
NameHints == {"x", "lv"}

\* The name hint of the variable the j-th binding of a block builder defines.
LocalHint(j) == IF j = 1 THEN "lv" ELSE IF j = 2 THEN "lv1"
                ELSE IF j = 3 THEN "lv2" ELSE "lv3"

\* What a node can receive as one input: None for an absent input, a
\* relax.Constant, a relax.Var with a name hint, or the relax.Call that a
\* converter such as Expand or ConstantOfShape returns without binding it to
\* a variable. The identity of an input is its position in the list.
BridgeInputKinds ==
    {[kind |-> "None", name_hint |-> ""], [kind |-> "Constant", name_hint |-> ""],
     [kind |-> "Call", name_hint |-> ""]}
    \cup {[kind |-> "Var", name_hint |-> h] : h \in NameHints}

\* Whether _relay_input_adapter raises: relax_var.name_hint is read of every
\* input that is neither None nor a relax.Constant, and a relax.Call has none.
has_no_name_hint(inputs) == \E p \in DOMAIN inputs : inputs[p].kind = "Call"

\* _relay_input_adapter(inputs): the Relay value mirroring each input.
_relay_input_adapter(inputs) ==
    [p \in DOMAIN inputs |->
        IF inputs[p].kind = "None" THEN [kind |-> "None", name_hint |-> ""]
        ELSE IF inputs[p].kind = "Constant"
             THEN [kind |-> "const", name_hint |-> ""]
             ELSE [kind |-> "var", name_hint |-> inputs[p].name_hint]]

\* The positions of relay_var_inputs, the relay.Var among relay_inputs.
relay_var_inputs(inputs) == {p \in DOMAIN inputs : inputs[p].kind = "var"}

\* A reference inside an expression: to the parameter that stands for the
\* Relay variable at a position ("param"), to the variable the j-th binding
\* of the translated body defines ("local"), to a value of the caller
\* ("primary"), or to something that is no variable ("const").
Ref(scope, pos, name_hint) == [scope |-> scope, pos |-> pos, name_hint |-> name_hint]
ConstRef == Ref("const", 0, "")
ParamRefs(inputs) == {Ref("param", p, inputs[p].name_hint) : p \in relay_var_inputs(inputs)}
LocalRef(j) == Ref("local", j, LocalHint(j))

\* The global variable a binding calls: none, or a function of a module.
NoGv == [mod |-> "none", name |-> ""]
Binding(j, kind, arg, gv) == [id |-> j, kind |-> kind, arg |-> arg, gv |-> gv]
NoValue == [kind |-> "none", arg |-> ConstRef, gv |-> NoGv]
NoModule == [bindings |-> <<>>, ret_tuple |-> FALSE]

\* The main functions testing.relay_translator.from_relay can return for a
\* Relay function over the given inputs: k calls of generated functions,
\* each binding a fresh variable, then, for a tuple result, the binding that
\* constructs the tuple, and last the binding of the output variable.
from_relay(inputs) ==
    LET A == ParamRefs(inputs) \cup {ConstRef}
        calls(k) == {c \in [1..k -> A \cup {LocalRef(j) : j \in 1..k}] :
                        \A j \in 1..k : c[j] \in A \/ (j > 1 /\ c[j] = LocalRef(j - 1))}
        last(k) == IF k > 0 THEN {LocalRef(k)} ELSE A
        body(k, c, t, a) ==
            [j \in 1..k |-> Binding(j, "call", c[j], [mod |-> "sub", name |-> "f"])]
            \o (IF t THEN <<Binding(k + 1, "tuple", a, NoGv),
                            Binding(k + 2, "out", LocalRef(k + 1), NoGv)>>
                     ELSE <<Binding(k + 1, "out", a, NoGv)>>)
    IN  UNION {UNION {{[bindings |-> body(k, c, t, a), ret_tuple |-> t] :
                          a \in last(k), t \in BOOLEAN} : c \in calls(k)} :
               k \in 0..MaxBindings}

\* relax_input_dict: name hint -> the Relax variable stored under it last.
relax_input_dict(inputs) ==
    [h \in {inputs[p].name_hint : p \in {q \in DOMAIN inputs : inputs[q].kind = "Var"}} |->
        SetMax({p \in DOMAIN inputs : inputs[p].kind = "Var" /\ inputs[p].name_hint = h})]

\* global_var_dict: the functions of the module other than main.
global_var_dict(mod) ==
    {mod.bindings[j].gv.name : j \in {i \in DOMAIN mod.bindings :
                                        mod.bindings[i].gv.mod = "sub"}}

\* Mapper.visit_var_
visit_var_(var_node, inputs) ==
    IF var_node.scope \in {"param", "local"}
       /\ var_node.name_hint \in DOMAIN relax_input_dict(inputs)
    THEN Ref("primary", relax_input_dict(inputs)[var_node.name_hint], var_node.name_hint)
    ELSE var_node

\* Mapper.visit_global_var_
visit_global_var_(gv_node, mod) ==
    IF gv_node.mod = "sub" /\ gv_node.name \in global_var_dict(mod)
    THEN [mod |-> "primary", name |-> gv_node.name]
    ELSE gv_node

\* Mapper().visit_expr(relax_mod["main"]): the bindings of the body with
\* both substitutions applied.
Mapper(mod, inputs) ==
    [j \in DOMAIN mod.bindings |->
        Binding(mod.bindings[j].id, mod.bindings[j].kind,
                visit_var_(mod.bindings[j].arg, inputs),
                visit_global_var_(mod.bindings[j].gv, mod))]

\* binding.value
value(binding) == [kind |-> binding.kind, arg |-> binding.arg, gv |-> binding.gv]

\* Mutant of final_index: the last binding is the return value in both cases.
final_index_last(ret_tuple) == -1

\* The index of final_binding in var_bindings.
final_index(ret_tuple) == IF ret_tuple THEN -2 ELSE -1

\* var_bindings[:i] for a negative i.
PySliceTo(s, i) == SubSeq(s, 1, Len(s) + i)

\* Mutant of RestoreCurrent: the pointer is left cleared.
RestoreCurrentCleared(prev) == "None"

\* relax.BlockBuilder._current = prev_bb
RestoreCurrent(prev) == prev

BridgeInit ==
    /\ bpc = "idle"
    /\ berr = "none"
    /\ _current = "primary"
    /\ caller_current = "primary"
    /\ prev_bb = "None"
    /\ relax_inputs = <<>>
    /\ relay_inputs = <<>>
    /\ relax_mod = NoModule
    /\ context_funcs = {}
    /\ emitted = <<>>
    /\ sym = NoValue

\* _convert_operator reaches a converter of the Relay frontend: the inputs
\* are mirrored and copied.
relay_input_adapter ==
    /\ bpc = "idle"
    /\ \E inputs \in SeqsOf(BridgeInputKinds, 0, MaxBridgeInputs) :
        /\ relax_inputs' = inputs
        /\ IF has_no_name_hint(inputs)
           THEN /\ bpc' = "raised"
                /\ berr' = "AttributeError"
                /\ UNCHANGED relay_inputs
           ELSE /\ relay_inputs' = _relay_input_adapter(inputs)
                /\ bpc' = "adapted"
                /\ UNCHANGED berr
    /\ caller_current' = _current
    /\ UNCHANGED <<_current, prev_bb, relax_mod, context_funcs, emitted, sym>>
    /\ UNCHANGED <<convVars, importVars, attrVars, auxVars, opsetVars, indexVars, twiceVars>>

\* op_function(relay_inputs_copy, attrs, params=[]): the Relay converter
\* returns an expression or raises.
op_function ==
    /\ bpc = "adapted"
    /\ \/ bpc' = "converted" /\ UNCHANGED berr
       \/ bpc' = "raised" /\ berr' = "ConverterError"
    /\ UNCHANGED <<_current, caller_current, prev_bb, relax_inputs, relay_inputs,
                   relax_mod, context_funcs, emitted, sym>>
    /\ UNCHANGED <<convVars, importVars, attrVars, auxVars, opsetVars, indexVars, twiceVars>>

\* _relay_output_adapter up to the call of the translator: the builder in
\* use is saved and the pointer cleared.
save_current ==
    /\ bpc = "converted"
    /\ prev_bb' = _current
    /\ _current' = "None"
    /\ bpc' = "saved"
    /\ UNCHANGED <<berr, caller_current, relax_inputs, relay_inputs, relax_mod,
                   context_funcs, emitted, sym>>
    /\ UNCHANGED <<convVars, importVars, attrVars, auxVars, opsetVars, indexVars, twiceVars>>

\* from_relay opens the function scope of a block builder of its own,
\* which refuses to nest inside another builder's.
from_relay_enter ==
    /\ bpc = "saved"
    /\ IF _current # "None"
       THEN bpc' = "raised" /\ berr' = "RuntimeError" /\ UNCHANGED _current
       ELSE bpc' = "translating" /\ _current' = "nested" /\ UNCHANGED berr
    /\ UNCHANGED <<caller_current, prev_bb, relax_inputs, relay_inputs, relax_mod,
                   context_funcs, emitted, sym>>
    /\ UNCHANGED <<convVars, importVars, attrVars, auxVars, opsetVars, indexVars, twiceVars>>

\* from_relay closes its function scope and returns the module.
from_relay_return ==
    /\ bpc = "translating"
    /\ \E mod \in from_relay(relay_inputs) : relax_mod' = mod
    /\ _current' = "None"
    /\ bpc' = "translated"
    /\ UNCHANGED <<berr, caller_current, prev_bb, relax_inputs, relay_inputs,
                   context_funcs, emitted, sym>>
    /\ UNCHANGED <<convVars, importVars, attrVars, auxVars, opsetVars, indexVars, twiceVars>>

\* from_relay raises, before or inside its function scope, which clears the
\* pointer on the way out.
from_relay_raise ==
    /\ bpc \in {"saved", "translating"}
    /\ _current' = "None"
    /\ bpc' = "raised"
    /\ berr' = "TranslationError"
    /\ UNCHANGED <<caller_current, prev_bb, relax_inputs, relay_inputs, relax_mod,
                   context_funcs, emitted, sym>>
    /\ UNCHANGED <<convVars, importVars, attrVars, auxVars, opsetVars, indexVars, twiceVars>>

\* The statement after the call of the translator.
restore_current ==
    /\ bpc = "translated"
    /\ _current' = RestoreCurrent(prev_bb)
    /\ bpc' = "restored"
    /\ UNCHANGED <<berr, caller_current, prev_bb, relax_inputs, relay_inputs,
                   relax_mod, context_funcs, emitted, sym>>
    /\ UNCHANGED <<convVars, importVars, attrVars, auxVars, opsetVars, indexVars, twiceVars>>

\* The rest of _relay_output_adapter: the functions of the module are added
\* to self.bb, the body is rewritten, its bindings emitted and the value of
\* the final one returned.
_relay_output_adapter ==
    /\ bpc = "restored"
    /\ LET var_bindings == Mapper(relax_mod, relax_inputs)
           i == final_index(relax_mod.ret_tuple)
       IN  /\ context_funcs' = context_funcs \cup global_var_dict(relax_mod)
           /\ emitted' = emitted \o PySliceTo(var_bindings, i)
           /\ sym' = value(PyIndex(var_bindings, i))
    /\ bpc' = "done"
    /\ UNCHANGED <<berr, _current, caller_current, prev_bb, relax_inputs,
                   relay_inputs, relax_mod>>
    /\ UNCHANGED <<convVars, importVars, attrVars, auxVars, opsetVars, indexVars, twiceVars>>

BridgeNext ==
    \/ relay_input_adapter
    \/ op_function
    \/ save_current
    \/ from_relay_enter
    \/ from_relay_return
    \/ from_relay_raise
    \/ restore_current
    \/ _relay_output_adapter

\* ----------------------------------------------- GraphProto._parse_attr
\* The variant fields of an AttributeProto that _parse_attr reads.
Fields == {"f", "i", "s", "g", "floats", "ints", "strings", "t", "tensors", "graphs"}

\* The attribute names of the records explored.
AttrNames == {"p", "q"}

\* An attribute record: its name and the variant fields that are populated.
AttributeProtos ==
    {[name |-> n, fields |-> fs] :
        n \in AttrNames, fs \in {x \in SUBSET Fields : Cardinality(x) <= MaxPopulated}}

\* The dict attrs with nothing in it: every name maps to "none"; a name in
\* the dict maps to the field its value was taken from.
NoAttrs == [n \in AttrNames |-> "none"]

\* One of the inner loops of _parse_attr over the fields fs for the record
\* a, from the dict and error st: a populated field stores its value under
\* the name of the record; where the loop asserts, a name already in the
\* dict raises.
RECURSIVE parse_fields(_, _, _, _)
parse_fields(st, a, fs, asserted) ==
    IF fs = <<>> \/ st.err # "none" THEN st
    ELSE IF Head(fs) \notin a.fields THEN parse_fields(st, a, Tail(fs), asserted)
    ELSE IF asserted /\ st.attrs[a.name] # "none"
         THEN [st EXCEPT !.err = "AssertionError"]
         ELSE parse_fields([st EXCEPT !.attrs[a.name] = Head(fs)], a, Tail(fs), asserted)

\* for f in ["graphs"]: a populated field raises.
parse_graphs(st, a) ==
    IF st.err = "none" /\ "graphs" \in a.fields
    THEN [st EXCEPT !.err = "NotImplementedError"]
    ELSE st

\* if a.name not in attrs: raise ValueError
parse_check(st, a) ==
    IF st.err = "none" /\ st.attrs[a.name] = "none"
    THEN [st EXCEPT !.err = "ValueError"]
    ELSE st

\* The body of the loop of _parse_attr for the record a.
parse_record(d, a) ==
    LET s0 == [attrs |-> d, err |-> "none"]
        s1 == parse_fields(s0, a, <<"f", "i", "s", "g">>, FALSE)
        s2 == parse_fields(s1, a, <<"floats", "ints", "strings">>, TRUE)
        s3 == parse_fields(s2, a, <<"t">>, FALSE)
        s4 == parse_fields(s3, a, <<"tensors">>, TRUE)
    IN  parse_check(parse_graphs(s4, a), a)

NoRecord == [name |-> "", fields |-> {}]

AttrInit ==
    /\ attr_pc = "parsing"
    /\ attrs = NoAttrs
    /\ attr_record = NoRecord
    /\ attr_err = "none"
    /\ attr_count = 0
    /\ attr_result = NoAttrs

\* One iteration of the loop of _parse_attr.
_parse_attr ==
    /\ attr_pc = "parsing"
    /\ attr_count < MaxAttrs
    /\ \E a \in AttributeProtos :
        LET st == parse_record(attrs, a)
        IN  /\ attr_record' = a
            /\ attrs' = st.attrs
            /\ attr_err' = st.err
            /\ attr_pc' = IF st.err = "none" THEN "parsing" ELSE "failed"
    /\ attr_count' = attr_count + 1
    /\ UNCHANGED attr_result
    /\ UNCHANGED <<convVars, importVars, bridgeVars, auxVars, opsetVars, indexVars, twiceVars>>

\* attr_proto is exhausted: return attrs.
_parse_attr_return ==
    /\ attr_pc = "parsing"
    /\ attr_result' = attrs
    /\ attr_pc' = "returned"
    /\ UNCHANGED <<attrs, attr_record, attr_err, attr_count>>
    /\ UNCHANGED <<convVars, importVars, bridgeVars, auxVars, opsetVars, indexVars, twiceVars>>

AttrNext ==
    \/ _parse_attr
    \/ _parse_attr_return

\* ------------------------- converters with compile-time-constant inputs
\* What a converter can find at a position of its inputs: None for an
\* absent input, a relax.Constant, or a value that is no constant.
InputKinds == {"None", "Constant", "Var"}

\* Mutant of onnx_input_getitem: the indexing of a plain list, which raises
\* past the end.
list_getitem(s, item) == IF item < Len(s) THEN PyIndex(s, item) ELSE "IndexError"

\* onnx_input.__getitem__(item) for an integer item: None past the end.
onnx_input_getitem(s, item) == IF item < Len(s) THEN PyIndex(s, item) ELSE "None"

\* What a converter call ends in: a value it emitted, one of its inputs
\* handed back as it came, or an exception.
Emitted == [kind |-> "value", err |-> "none"]
HandedBack == [kind |-> "input", err |-> "none"]
Raised(e) == [kind |-> "raise", err |-> e]
NoResult == [kind |-> "none", err |-> "none"]

\* Reshape._impl_v13
Reshape_impl_v13(inputs) ==
    IF onnx_input_getitem(inputs, 1) # "Constant" THEN HandedBack ELSE Emitted

\* Slice._impl_v13
Slice_impl_v13(inputs) ==
    LET starts == onnx_input_getitem(inputs, 1)
        ends == onnx_input_getitem(inputs, 2)
        axes == onnx_input_getitem(inputs, 3)
        steps == onnx_input_getitem(inputs, 4)
    IN  IF ~(\A param \in {starts, ends, axes, steps} : param \in {"Constant", "None"})
        THEN Raised("ValueError")
        ELSE IF starts = "None" \/ ends = "None"
             THEN Raised("AttributeError")
             ELSE Emitted

\* Tile._impl_v13
Tile_impl_v13(inputs) ==
    IF onnx_input_getitem(inputs, 1) = "Constant" THEN Emitted ELSE Raised("ValueError")

\* The values of the attribute "mode" of a Pad node.
PadModes == {"constant", "reflect", "edge", "wrap"}

\* Pad._impl_v11
Pad_impl_v11(inputs, mode) ==
    IF Len(inputs) = 3 /\ onnx_input_getitem(inputs, 2) = "Var"
    THEN Raised("AttributeError")
    ELSE IF onnx_input_getitem(inputs, 1) # "Constant" THEN Raised("ValueError")
    ELSE IF mode \notin {"constant", "edge", "reflect"} THEN Raised("OpAttributeInvalid")
    ELSE IF mode = "edge" THEN Raised("NotImplementedError")
    ELSE Emitted

AuxInit ==
    /\ aux_op = ""
    /\ aux_inputs = <<>>
    /\ aux_mode = ""
    /\ aux_result = NoResult

\* A Reshape node is lowered.
Reshape ==
    /\ aux_op = ""
    /\ \E inputs \in SeqsOf(InputKinds, 1, MaxAuxInputs) :
        /\ aux_inputs' = inputs
        /\ aux_result' = Reshape_impl_v13(inputs)
    /\ aux_op' = "Reshape"
    /\ aux_mode' = ""
    /\ UNCHANGED <<convVars, importVars, bridgeVars, attrVars, opsetVars, indexVars, twiceVars>>

\* A Slice node is lowered.
Slice ==
    /\ aux_op = ""
    /\ \E inputs \in SeqsOf(InputKinds, 1, MaxAuxInputs) :
        /\ aux_inputs' = inputs
        /\ aux_result' = Slice_impl_v13(inputs)
    /\ aux_op' = "Slice"
    /\ aux_mode' = ""
    /\ UNCHANGED <<convVars, importVars, bridgeVars, attrVars, opsetVars, indexVars, twiceVars>>

\* A Tile node is lowered.
Tile ==
    /\ aux_op = ""
    /\ \E inputs \in SeqsOf(InputKinds, 1, MaxAuxInputs) :
        /\ aux_inputs' = inputs
        /\ aux_result' = Tile_impl_v13(inputs)
    /\ aux_op' = "Tile"
    /\ aux_mode' = ""
    /\ UNCHANGED <<convVars, importVars, bridgeVars, attrVars, opsetVars, indexVars, twiceVars>>

\* A Pad node is lowered.
Pad ==
    /\ aux_op = ""
    /\ \E inputs \in SeqsOf(InputKinds, 1, MaxAuxInputs), mode \in PadModes :
        /\ aux_inputs' = inputs
        /\ aux_mode' = mode
        /\ aux_result' = Pad_impl_v11(inputs, mode)
    /\ aux_op' = "Pad"
    /\ UNCHANGED <<convVars, importVars, bridgeVars, attrVars, opsetVars, indexVars, twiceVars>>

AuxNext ==
    \/ Reshape
    \/ Slice
    \/ Tile
    \/ Pad

\* ------------------------------ the entry point from_onnx(model, ..., opset)
\* None, for the argument opset that the caller left out.
None == 0

\* The versions an operator-set import declares or a caller asks for.
DeclaredVersions == Opsets \cup {1}

\* The domains of the entries of model.opset_import.
Domains == {"", "ai.onnx", "ai.onnx.ml"}

\* The entries model.opset_import can hold.
OperatorSetIds == [domain : Domains, version : DeclaredVersions]

\* Mutant of is_default_domain: only the empty domain counts.
is_empty_domain(domain) == domain = ""

\* str(opset_identifier.domain) in ["ai.onnx", ""]
is_default_domain(domain) == domain \in {"ai.onnx", ""}

\* Mutant of select_opset: the version found in the model is always taken.
select_opset_in_model(arg, in_model) == in_model

\* The value of opset after "if opset is None: opset = opset_in_model".
select_opset(arg, in_model) == IF arg = None THEN in_model ELSE arg

\* The condition under which the warning of lines 1303-1308 is issued.
warns(arg, in_model) == arg # None /\ arg < in_model

OpsetInit ==
    /\ opset_pc = "idle"
    /\ has_opset_import = TRUE
    /\ opset_import = <<>>
    /\ opset_arg = None
    /\ opset_value = None
    /\ opset_in_model = 0
    /\ opset_scan = 0
    /\ opset_warned = FALSE
    /\ g_opset = 0
    /\ resolved = {}

\* from_onnx is called on a model, with or without the argument opset;
\* opset_in_model starts at 1.
from_onnx_model ==
    /\ opset_pc = "idle"
    /\ \E has \in BOOLEAN,
          imports \in SeqsOf(OperatorSetIds, 0, MaxOpsetImports),
          arg \in DeclaredVersions \cup {None} :
        /\ has_opset_import' = has
        /\ opset_import' = IF has THEN imports ELSE <<>>
        /\ opset_arg' = arg
        /\ opset_value' = arg
    /\ opset_in_model' = 1
    /\ opset_scan' = 0
    /\ opset_pc' = "scan"
    /\ UNCHANGED <<opset_warned, g_opset, resolved>>
    /\ UNCHANGED <<convVars, importVars, bridgeVars, attrVars, auxVars, indexVars, twiceVars>>

\* One iteration of "for opset_identifier in model.opset_import": the first
\* entry of a default domain gives the version and ends the loop.
opset_import_scan ==
    /\ opset_pc = "scan"
    /\ has_opset_import
    /\ opset_scan < Len(opset_import)
    /\ LET opset_identifier == PyIndex(opset_import, opset_scan)
       IN  IF is_default_domain(opset_identifier.domain)
           THEN /\ opset_in_model' = opset_identifier.version
                /\ opset_pc' = "select"
                /\ UNCHANGED opset_scan
           ELSE /\ opset_scan' = opset_scan + 1
                /\ UNCHANGED <<opset_in_model, opset_pc>>
    /\ UNCHANGED <<has_opset_import, opset_import, opset_arg, opset_value, opset_warned, g_opset, resolved>>
    /\ UNCHANGED <<convVars, importVars, bridgeVars, attrVars, auxVars, indexVars, twiceVars>>

\* model.opset_import is empty or exhausted.
opset_import_scan_end ==
    /\ opset_pc = "scan"
    /\ has_opset_import
    /\ opset_scan = Len(opset_import)
    /\ opset_pc' = "select"
    /\ UNCHANGED <<has_opset_import, opset_import, opset_arg, opset_value, opset_in_model, opset_scan,
                   opset_warned, g_opset, resolved>>
    /\ UNCHANGED <<convVars, importVars, bridgeVars, attrVars, auxVars, indexVars, twiceVars>>

\* The model has no attribute opset_import: the AttributeError is caught.
opset_import_missing ==
    /\ opset_pc = "scan"
    /\ ~has_opset_import
    /\ opset_in_model' = 1
    /\ opset_pc' = "select"
    /\ UNCHANGED <<has_opset_import, opset_import, opset_arg, opset_value,
                   opset_scan, opset_warned, g_opset, resolved>>
    /\ UNCHANGED <<convVars, importVars, bridgeVars, attrVars, auxVars, indexVars, twiceVars>>

\* The choice between the argument and the version found, with the warning
\* for an argument below that version.
opset_select ==
    /\ opset_pc = "select"
    /\ opset_value' = select_opset(opset_value, opset_in_model)
    /\ opset_warned' = warns(opset_value, opset_in_model)
    /\ opset_pc' = "call"
    /\ UNCHANGED <<has_opset_import, opset_import, opset_arg, opset_in_model, opset_scan, g_opset,
                   resolved>>
    /\ UNCHANGED <<convVars, importVars, bridgeVars, attrVars, auxVars, indexVars, twiceVars>>

\* return g.from_onnx(graph, opset), which sets self.opset = opset.
g_from_onnx ==
    /\ opset_pc = "call"
    /\ g_opset' = opset_value
    /\ opset_pc' = "import"
    /\ UNCHANGED <<has_opset_import, opset_import, opset_arg, opset_value, opset_in_model, opset_scan,
                   opset_warned, resolved>>
    /\ UNCHANGED <<convVars, importVars, bridgeVars, attrVars, auxVars, indexVars, twiceVars>>

\* A node of the graph is lowered: its converter class is resolved for
\* self.opset. The resolutions made are collected.
convert_class_get_converter ==
    /\ opset_pc = "import"
    /\ \E op_name \in _get_convert_map :
        resolved' = resolved \cup
            {[op_name |-> op_name, opset |-> g_opset,
              impl |-> get_converter(ImplVersions(op_name), g_opset)]}
    /\ UNCHANGED <<has_opset_import, opset_import, opset_arg, opset_value, opset_in_model, opset_scan,
                   opset_warned, g_opset, opset_pc>>
    /\ UNCHANGED <<convVars, importVars, bridgeVars, attrVars, auxVars, indexVars, twiceVars>>

OpsetNext ==
    \/ from_onnx_model
    \/ opset_import_scan
    \/ opset_import_scan_end
    \/ opset_import_missing
    \/ opset_select
    \/ g_from_onnx
    \/ convert_class_get_converter

\* ------------------------------------------- the input list of a node
\* The values self._nodes can hold for a name: constants, variables and
\* converter results, none of them None.
BoundValues == {"x", "y"}

\* The integer indexes a converter reads its inputs at.
Items == 0..MaxItem

\* The list "inputs" that _construct_nodes builds for a node whose input
\* references are refs, in an environment that binds every name referred to.
construct_inputs(env, refs) ==
    [k \in DOMAIN refs |-> IF refs[k] # "" THEN env[refs[k]] ELSE "None"]

IndexInit ==
    /\ ix_pc = "idle"
    /\ ix_env = [n \in Names |-> "x"]
    /\ ix_refs = <<>>
    /\ ix_inputs = <<>>
    /\ ix_item = 0
    /\ ix_result = "None"

\* The input list of a node is built.
populate_input_list ==
    /\ ix_pc = "idle"
    /\ \E env \in [Names -> BoundValues],
          refs \in SeqsOf(Names \cup {""}, 0, MaxIndexedInputs) :
        /\ ix_env' = env
        /\ ix_refs' = refs
        /\ ix_inputs' = construct_inputs(env, refs)
    /\ ix_pc' = "built"
    /\ UNCHANGED <<ix_item, ix_result>>
    /\ UNCHANGED <<convVars, importVars, bridgeVars, attrVars, auxVars, opsetVars, twiceVars>>

\* A converter reads inputs[item].
getitem ==
    /\ ix_pc \in {"built", "read"}
    /\ \E item \in Items :
        /\ ix_item' = item
        /\ ix_result' = onnx_input_getitem(ix_inputs, item)
    /\ ix_pc' = "read"
    /\ UNCHANGED <<ix_env, ix_refs, ix_inputs>>
    /\ UNCHANGED <<convVars, importVars, bridgeVars, attrVars, auxVars, opsetVars, twiceVars>>

IndexNext ==
    \/ populate_input_list
    \/ getitem

\* ------------------------------------ one graph imported more than once
\* The nodes of the graphs imported twice: a tag, one input reference, the
\* output names, and what the converter of the tag yields for the node.
TwiceNodes ==
    {nd \in [op_type : {"Add", "Split"}, input : SeqsOf(Names, 1, 1),
             output : SeqsOf(Names, 1, 1),
             conv : [kind : {"expr", "tupletyped", "raise"}, m : 0..MaxArity]] :
        \E o \in Opsets :
            /\ get_converter(ImplVersions(nd.op_type), o) # NotImplemented
            /\ nd.conv \in ConverterOutcomes(nd.op_type,
                                            get_converter(ImplVersions(nd.op_type), o))}

\* The graphs imported twice.
TwiceGraphs ==
    [initializer : SeqsOf(Names, 0, MaxTwice), input : SeqsOf(Names, 0, MaxTwiceInputs),
     node : SeqsOf(TwiceNodes, 0, MaxTwice), output : SeqsOf(Names, 0, MaxTwice)]

\* No import has been made: there is no instance whose fields could be kept.
NoInstance ==
    [_nodes |-> [n \in Names |-> Unbound], _inputs |-> <<>>, emitted |-> 0,
     err |-> "none"]

\* Mutant of GraphProto_init: the fields of the instance used last are kept.
GraphProto_kept(last) == [last EXCEPT !.err = "none"]

\* GraphProto(shape, dtype, target): __init__ gives the new instance empty
\* dicts and a block builder of its own, whatever an earlier instance holds.
GraphProto_init(last) ==
    [_nodes |-> [n \in Names |-> Unbound], _inputs |-> <<>>, emitted |-> 0,
     err |-> "none"]

\* _parse_graph_initializers over the first n initializers.
RECURSIVE parse_initializers(_, _, _)
parse_initializers(g, initializer, n) ==
    IF n = 0 THEN g
    ELSE LET h == parse_initializers(g, initializer, n - 1)
         IN  [h EXCEPT !._nodes[initializer[n]] = ConstOf(n, initializer[n])]

\* _parse_graph_input over the first n declared inputs.
RECURSIVE parse_inputs(_, _, _)
parse_inputs(g, input, n) ==
    IF n = 0 THEN g
    ELSE LET h == parse_inputs(g, input, n - 1)
             i_name == input[n]
         IN  IF already_bound(h._nodes, i_name)
             THEN h
             ELSE [h EXCEPT !._nodes[i_name] = ParamOf(n, i_name),
                            !._inputs = DictSet(h._inputs, i_name, ParamOf(n, i_name))]

\* _check_for_unsupported_ops
check_ops(g, nodes) ==
    IF unsupported_ops([k \in DOMAIN nodes |-> nodes[k].op_type]) # {}
    THEN [g EXCEPT !.err = "OpNotImplemented"]
    ELSE g

\* The bindings the block builder receives for one node: the one of the
\* converter, and one TupleGetItem for each field of a result of tuple type.
node_bindings(conv) == 1 + (IF conv.kind = "tupletyped" THEN conv.m ELSE 0)

\* _construct_nodes over the first n nodes.
RECURSIVE construct_nodes(_, _, _, _)
construct_nodes(g, nodes, opset, n) ==
    IF n = 0 THEN g
    ELSE LET h == construct_nodes(g, nodes, opset, n - 1)
             nd == nodes[n]
             impl == get_converter(ImplVersions(nd.op_type), opset)
         IN  IF h.err # "none" THEN h
             ELSE IF ~InputsResolve(h._nodes, nd.input)
                  THEN [h EXCEPT !.err = "KeyError"]
             ELSE IF impl = NotImplemented
                     \/ nd.conv \notin ConverterOutcomes(nd.op_type, impl)
                  THEN [h EXCEPT !.err = "NotImplementedError"]
             ELSE IF nd.conv.kind = "raise"
                  THEN [h EXCEPT !.err = "ConverterError"]
             ELSE IF ~ArityOk(nd.output, nd.conv)
                  THEN [h EXCEPT !.err = "AssertionError"]
             ELSE [h EXCEPT !._nodes = BindOutputs(h._nodes, n, nd.output, nd.conv),
                            !.emitted = h.emitted + node_bindings(nd.conv)]

\* GraphProto.from_onnx(graph, opset) on the instance g.
GraphProto_from_onnx(g, graph, opset) ==
    LET seeded == parse_inputs(
                      parse_initializers(g, graph.initializer, Len(graph.initializer)),
                      graph.input, Len(graph.input))
        checked == check_ops(seeded, graph.node)
    IN  IF checked.err # "none" THEN checked
        ELSE LET built == construct_nodes(checked, graph.node, opset, Len(graph.node))
             IN  IF built.err # "none" THEN built
                 ELSE IF \E k \in DOMAIN graph.output : built._nodes[graph.output[k]] = Unbound
                      THEN [built EXCEPT !.err = "KeyError"]
                      ELSE [built EXCEPT !.emitted = built.emitted + 1]

\* The structure of what an import gave: the exception, or the names of the
\* parameters in order, the number of bindings and the value returned.
Structure(g, graph) ==
    IF g.err # "none"
    THEN [err |-> g.err, params |-> <<>>, bindings |-> 0, ret |-> Unbound]
    ELSE [err |-> "none",
          params |-> [k \in DOMAIN param_list(g._inputs) |-> param_list(g._inputs)[k].name],
          bindings |-> g.emitted,
          ret |-> assemble_outputs([k \in DOMAIN graph.output |-> g._nodes[graph.output[k]]])]

NoGraph == [initializer |-> <<>>, input |-> <<>>, node |-> <<>>, output |-> <<>>]

TwiceInit ==
    /\ tw_pc = "idle"
    /\ tw_graph = NoGraph
    /\ tw_opset = 0
    /\ tw_instance = NoInstance
    /\ tw_results = <<>>

\* A model and a configuration are chosen, to be imported twice.
load_model ==
    /\ tw_pc = "idle"
    /\ \E graph \in TwiceGraphs, o \in Opsets :
        /\ tw_graph' = graph
        /\ tw_opset' = o
    /\ tw_pc' = "loaded"
    /\ UNCHANGED <<tw_instance, tw_results>>
    /\ UNCHANGED <<convVars, importVars, bridgeVars, attrVars, auxVars, opsetVars,
                   indexVars>>

\* from_onnx(model, ..., opset): g = GraphProto(shape, dtype, target), then
\* g.from_onnx(graph, opset).
import_model ==
    /\ tw_pc = "loaded"
    /\ Len(tw_results) < MaxImports
    /\ LET g == GraphProto_from_onnx(GraphProto_init(tw_instance), tw_graph, tw_opset)
       IN  /\ tw_instance' = g
           /\ tw_results' = Append(tw_results, Structure(g, tw_graph))
    /\ UNCHANGED <<tw_pc, tw_graph, tw_opset>>
    /\ UNCHANGED <<convVars, importVars, bridgeVars, attrVars, auxVars, opsetVars,
                   indexVars>>

TwiceNext ==
    \/ load_model
    \/ import_model

Init ==
    /\ ConvInit /\ ImportInit /\ BridgeInit /\ AttrInit /\ AuxInit
    /\ OpsetInit /\ IndexInit /\ TwiceInit

SpecConv == Init /\ [][ConvNext]_vars

Spec == Init /\ [][ImportNext]_vars

\* The import with the use of initializers observed.
ImportNextObserved ==
    \/ from_onnx
    \/ _parse_graph_initializers
    \/ _parse_graph_initializers_end
    \/ _parse_graph_input
    \/ _parse_graph_input_end
    \/ _check_for_unsupported_ops
    \/ _construct_nodes_observed
    \/ _convert_operator
    \/ _construct_nodes_end
    \/ emit_func_output

SpecUsage == Init /\ [][ImportNextObserved]_vars

\* The import with the shapes of the declared inputs observed.
ImportNextShapes ==
    \/ from_onnx
    \/ _parse_graph_initializers
    \/ _parse_graph_initializers_end
    \/ _parse_graph_input_observed
    \/ _parse_graph_input_end
    \/ _check_for_unsupported_ops
    \/ _construct_nodes
    \/ _convert_operator
    \/ _construct_nodes_end
    \/ emit_func_output

SpecShapes == Init /\ [][ImportNextShapes]_vars

SpecBridge == Init /\ [][BridgeNext]_vars

SpecAttr == Init /\ [][AttrNext]_vars

SpecAux == Init /\ [][AuxNext]_vars

SpecOpset == Init /\ [][OpsetNext]_vars

SpecIndex == Init /\ [][IndexNext]_vars

SpecTwice == Init /\ [][TwiceNext]_vars

\* C1: for a class with registered versions V (non-empty) and a requested
\* opset r >= min(V), get_converter returns the implementation registered at
\* the greatest version of V not above r (at r itself when r is in V).
C1_FloorResolution ==
    (convVersions # {} /\ convOpset >= SetMin(convVersions))
        => /\ convResult = SetMax({v \in convVersions : v <= convOpset})
           /\ (convOpset \in convVersions => convResult = convOpset)

\* A resolution strictly between two registered versions that returned the
\* lower one.
C1_Witness ==
    /\ Cardinality(convVersions) >= 2
    /\ convOpset \notin convVersions
    /\ convOpset > SetMin(convVersions)
    /\ convOpset < SetMax(convVersions)
    /\ convResult \in convVersions
    /\ convResult < convOpset

\* C2: for a class with registered versions V and a requested opset r below
\* min(V), get_converter fails and returns no implementation.
C2_BelowMinimumFails ==
    (convVersions # {} /\ convOpset < SetMin(convVersions))
        => convResult = NotImplemented

\* ------------------------------------------------- claims on the import
\* C3: during one import the environment is append-only: once a name is
\* bound, no later step of the import binds it to a different value.
C3_EnvironmentAppendOnly ==
    [][\A n \in Names : _nodes[n] # Unbound => _nodes'[n] = _nodes[n]]_vars

\* The declared output names of the node processed last are pairwise distinct.
DistinctOutputs == \A j, k \in DOMAIN node.output :
                       node.output[j] = node.output[k] => j = k

\* C8: after a node declaring n >= 1 outputs whose converter result is an
\* aggregate of m >= n components has been processed, the k-th declared
\* output name is bound to the k-th component, for every k < n (n = m = 1
\* included). Stated for nodes whose output names are pairwise distinct.
C8_OutputsBoundToComponents ==
    (/\ node.conv.kind \in {"Tuple", "tupletyped"}
     /\ Len(node.output) >= 1
     /\ node.conv.m >= Len(node.output)
     /\ DistinctOutputs)
        => \A k \in DOMAIN node.output :
               _nodes[node.output[k]] = FieldOf(idx - 1, k - 1)

\* The number of values a converter result provides: the tuple length, the
\* number of fields of the tuple type, or 1 for a value that is no tuple.
Provided(conv) == IF conv.kind \in {"Tuple", "tupletyped"} THEN conv.m ELSE 1

\* C9: when a node's converter result provides fewer values than the node
\* declares outputs (m < n), the import fails at that node and none of the
\* node's declared output names is bound: the step that meets the mismatch
\* ends in the failure and leaves the environment untouched, and nothing is
\* bound once the import has failed.
C9_ArityMismatchBindsNothing ==
    /\ [][(/\ pc = "convert"
           /\ node'.conv.kind \in {"expr", "Tuple", "tupletyped"}
           /\ Provided(node'.conv) < Len(node'.output))
             => /\ pc' = "failed" /\ err' = "AssertionError"
                /\ _nodes' = _nodes]_vars
    /\ [][err = "AssertionError" => _nodes' = _nodes]_vars

\* A node declaring two outputs, neither bound before, whose converter
\* returned a value of a tuple type with one field: the import has failed.
C9_Witness ==
    /\ err = "AssertionError"
    /\ node.conv = [kind |-> "tupletyped", m |-> 1]
    /\ Len(node.output) = 2
    /\ \A k \in DOMAIN node.output : _nodes[node.output[k]] = Unbound

\* Some non-empty reference of the list names nothing the environment holds.
HasUndefinedReference(env, input) ==
    \E k \in DOMAIN input : input[k] # "" /\ env[input[k]] = Unbound

\* C10: nodes are lowered strictly in declaration order, and a node with a
\* non-empty input reference to a name not yet bound makes construction fail
\* at that node: its converter is not invoked, and none of the outputs of it
\* or of any later node is bound (no step binds anything from the failure
\* on, and no converter of this or a later node runs).
C10_UndefinedReferenceFails ==
    /\ [](\A i \in 1..(idx - 1) : i \in invoked)
    /\ [](invoked \subseteq 1..idx)
    /\ []((pc = "nodes" /\ ops # <<>>) =>
            \A input \in NodeInputLists :
                HasUndefinedReference(_nodes, input)
                    => ~ENABLED (populate_inputs(input) /\ pc' # "failed"))
    /\ []((err = "KeyError" /\ failedIn = "nodes") => idx \notin invoked)
    /\ [][(pc = "nodes" /\ pc' = "failed")
            => (_nodes' = _nodes /\ invoked' = invoked)]_vars
    /\ [][pc = "failed" => (pc' = "failed" /\ _nodes' = _nodes
                            /\ invoked' = invoked)]_vars

\* The first of two nodes referred to an unbound name: the import failed
\* there, with the second node still to come and no output name bound.
C10_Witness ==
    /\ err = "KeyError" /\ failedIn = "nodes"
    /\ idx = 1 /\ Len(ops) = 2
    /\ invoked = {}
    /\ Len(node.output) >= 1
    /\ \A k \in DOMAIN node.output : _nodes[node.output[k]] = Unbound

\* ------------------------------------------------- claims on the bridge
\* C4: if the nested translation raises, then once the failure has left the
\* bridge the current-builder pointer holds the value it held immediately
\* before the bridge call.
C4_PointerRestoredOnFailure ==
    (bpc = "raised" /\ berr = "TranslationError") => _current = caller_current

\* C5: when the nested construction completes normally, the current-builder
\* pointer after the bridge call equals its value immediately before the
\* call; during the nested construction the pointer does not refer to the
\* primary builder, and the nested construction leaves what the primary
\* builder holds as it was.
C5_PointerScopedAroundNestedConstruction ==
    /\ [](bpc \in {"saved", "translating", "translated"} => _current # "primary")
    /\ [](bpc \in {"restored", "done"} => _current = caller_current)
    /\ [][(bpc \in {"saved", "translating"})
            => (emitted' = emitted /\ context_funcs' = context_funcs)]_vars

\* A bridge call that came back with a translated body of several bindings
\* and the pointer on the primary builder again.
C5_Witness ==
    /\ bpc = "done"
    /\ caller_current = "primary"
    /\ _current = "primary"
    /\ prev_bb = "primary"
    /\ Len(relax_mod.bindings) >= 2

\* The position, in the translated body, of the binding whose right-hand
\* side is the value of the function: the final binding of a body that
\* returns a scalar, the tuple-construction binding of one that returns a
\* tuple.
ReturnValueBinding(mod) ==
    IF mod.ret_tuple
    THEN CHOOSE j \in DOMAIN mod.bindings : mod.bindings[j].kind = "tuple"
    ELSE Len(mod.bindings)

\* C6: for a translated body b1..bn the bridge re-emits into the primary
\* builder, in the original order and without omission or duplication,
\* exactly the bindings that precede the return-value binding, and returns
\* that binding's right-hand side; the return-value binding is the final
\* binding for a scalar result and the tuple-construction binding for a
\* tuple result, and is itself never emitted.
C6_SpliceRule ==
    bpc = "done" =>
        LET r == ReturnValueBinding(relax_mod)
            rewritten == Mapper(relax_mod, relax_inputs)
        IN  /\ Len(emitted) = r - 1
            /\ \A j \in 1..(r - 1) : emitted[j] = rewritten[j]
            /\ \A j \in DOMAIN emitted : emitted[j].id # r
            /\ sym = value(rewritten[r])
            /\ sym.kind = (IF relax_mod.ret_tuple THEN "tuple" ELSE "out")

\* A body of two calls followed by the tuple construction and the output
\* binding has been spliced: both calls emitted, the tuple returned.
C6_Witness ==
    /\ bpc = "done"
    /\ relax_mod.ret_tuple
    /\ Len(relax_mod.bindings) = 4
    /\ Len(emitted) = 2
    /\ sym.kind = "tuple"

\* C7: after the rewrite every reference to a shadow variable, in the
\* spliced bindings and in the returned value, is replaced by the primary
\* input at the same position, for every list of inputs, including those
\* where two distinct non-constant inputs carry the same name hint.
C7_ShadowReplacedByPosition ==
    bpc = "done" =>
        \A j \in DOMAIN relax_mod.bindings :
            relax_mod.bindings[j].arg.scope = "param" =>
                LET b == Mapper(relax_mod, relax_inputs)[j]
                    q == relax_mod.bindings[j].arg.pos
                IN  /\ b.arg = Ref("primary", q, relax_inputs[q].name_hint)
                    /\ (j <= Len(emitted) => emitted[j].arg = b.arg)
                    /\ (j = ReturnValueBinding(relax_mod) => sym.arg = b.arg)

\* ------------------------------------- claims on the import (continued)
\* The operator tags of the graph that neither catalog converts.
UnknownTags(graph_ops) ==
    {t \in Tags : t \notin _get_convert_map /\ \E k \in DOMAIN graph_ops : graph_ops[k] = t}

\* C11: if some node has an operator tag in neither catalog, the import
\* fails exactly once, with one unsupported-operators error that names every
\* unknown tag of the graph (each once), not just the first; the failure
\* comes before any node is lowered and nothing follows it.
C11_UnsupportedOperatorsAggregated ==
    /\ [][(pc = "check" /\ UnknownTags(ops') # {})
            => /\ pc' = "failed" /\ err' = "OpNotImplemented"
               /\ reported' = UnknownTags(ops')
               /\ invoked' = {}]_vars
    /\ [][(pc = "check" /\ UnknownTags(ops') = {})
            => (pc' = "nodes" /\ reported' = {})]_vars
    /\ [][err = "OpNotImplemented" => (err' = err /\ reported' = reported)]_vars

\* A graph of two nodes, each of a different unknown tag, has failed with
\* an error naming both.
C11_Witness ==
    /\ pc = "failed" /\ err = "OpNotImplemented"
    /\ ops = <<"FooOp", "BarOp">>
    /\ reported = {"FooOp", "BarOp"}

\* ------------------------------------------- claims on attribute decoding
\* C12: attribute decoding rejects every attribute record that has more
\* than one variant field populated: decoding fails instead of returning a
\* mapping that keeps one of the values.
C12_MultipleVariantsRejected ==
    Cardinality(attr_record.fields) > 1 => attr_err # "none"

\* C13: attribute decoding rejects every attribute record that carries a
\* sub-graph value, as a single nested graph or as a list of nested graphs:
\* decoding fails and no mapping entry is produced for the attribute.
C13_SubGraphRejected ==
    (attr_record.fields \cap {"g", "graphs"} # {})
        => /\ attr_err # "none"
           /\ attr_result = NoAttrs

\* The positions, among the inputs of a node, of the auxiliary inputs its
\* lowering needs as compile-time constants: Reshape's target shape, Slice's
\* starts, ends, axes and steps, Tile's repetitions, Pad's pads.
AuxPositions(op) == IF op = "Slice" THEN {1, 2, 3, 4} ELSE {1}

\* C14: an operator whose lowering needs a compile-time-constant auxiliary
\* input fails when that input is a value that is no constant; it never
\* produces an output value for the node in that case.
C14_DynamicParameterFails ==
    (\E k \in AuxPositions(aux_op) :
        k < Len(aux_inputs) /\ aux_inputs[k + 1] = "Var")
        => aux_result.kind = "raise"

\* C15: an initializer whose name collides with the name of an initializer
\* registered before it fails the import with a name error; the name is not
\* registered a second time, so while initializers are registered no name
\* that is bound is bound again.
C15_CollidingInitializerFails ==
    [][\A n \in Names :
          (pc = "initializers" /\ _nodes[n] # Unbound) => _nodes'[n] = _nodes[n]]_vars

\* No two entries of a list of values carry the same name.
NoDuplicateNames(l) == \A j, k \in DOMAIN l : l[j].name = l[k].name => j = k

\* C16: the parameter list holds no name twice, while it is built and when
\* the function is emitted; a declared input whose name is already bound, by
\* an initializer or by an earlier declared input, leaves that binding as it
\* is and adds no parameter, and a declared input that is registered is
\* appended to the parameters registered before it.
C16_NoDuplicateParameters ==
    /\ [](NoDuplicateNames(_inputs) /\ NoDuplicateNames(params))
    /\ [][\A n \in Names :
             (pc = "inputs" /\ _nodes[n] # Unbound) => _nodes'[n] = _nodes[n]]_vars
    /\ [][(pc = "inputs" /\ _inputs' # _inputs)
             => /\ _inputs' = Append(_inputs, _inputs'[Len(_inputs')])
                /\ _nodes[_inputs'[Len(_inputs')].name] = Unbound]_vars

\* Two declared inputs named "a" were read and the import succeeded: the
\* function has the one parameter registered for the first of them.
C16_Witness ==
    /\ pc = "done"
    /\ nInit = 0 /\ nIn = 2
    /\ params = <<ParamOf(1, "a")>>
    /\ _nodes["a"] = ParamOf(1, "a")

\* C17: the ordered parameter list of the emitted function holds every
\* initializer that some node has taken as an input.
C17_UsedInitializersAreParameters ==
    pc = "done" => \A v \in used : \E k \in DOMAIN params : params[k] = v

\* C18: when the import has succeeded, every declared output name of the
\* graph is bound in the environment, and the value returned is the binding
\* of the one declared output when there is exactly one, and otherwise the
\* aggregate whose fields are the bindings of the declared outputs in
\* declared order.
C18_OutputsAssembled ==
    pc = "done" =>
        /\ \A k \in DOMAIN graph_output : _nodes[graph_output[k]] # Unbound
        /\ IF Len(graph_output) = 1
           THEN ret = _nodes[graph_output[1]]
           ELSE /\ ret.kind = "outputs"
                /\ ret.fields = [k \in DOMAIN graph_output |-> _nodes[graph_output[k]]]

\* A graph declaring the outputs "b" and "a", in that order, was imported:
\* the function returns the aggregate of the two bindings in that order.
C18_Witness ==
    /\ pc = "done"
    /\ graph_output = <<"b", "a">>
    /\ ret.kind = "outputs"
    /\ ret.fields = <<_nodes["b"], _nodes["a"]>>
    /\ _nodes["a"] # _nodes["b"]

\* ------------------------------------------ claims on the opset detection
\* The positions of the entries of a default domain in a list of imports.
DefaultEntries(imports) ==
    {k \in DOMAIN imports : imports[k].domain = "" \/ imports[k].domain = "ai.onnx"}

\* The version of the first entry of a default domain, 1 when there is none.
FirstDefaultVersion(imports) ==
    IF DefaultEntries(imports) = {}
    THEN 1
    ELSE imports[SetMin(DefaultEntries(imports))].version

\* C19: when the caller gives no opset, the working version, the one handed
\* to the import and used by every converter resolution, is the version of
\* the first entry of model.opset_import whose domain is "" or "ai.onnx",
\* whatever later entries say, and 1 when the list is empty or has no such
\* entry.
C19_DetectedOpset ==
    (opset_arg = None /\ opset_pc \in {"call", "import"}) =>
        /\ opset_value = FirstDefaultVersion(opset_import)
        /\ opset_pc = "import" =>
            /\ g_opset = FirstDefaultVersion(opset_import)
            /\ \A r \in resolved : r.opset = FirstDefaultVersion(opset_import)

\* No opset was given and the model declares "ai.onnx" at 9 before "" at 13:
\* converters were resolved for 9.
C19_Witness ==
    /\ opset_pc = "import"
    /\ opset_arg = None
    /\ opset_import = <<[domain |-> "ai.onnx", version |-> 9],
                        [domain |-> "", version |-> 13]>>
    /\ g_opset = 9
    /\ \E r \in resolved : r.op_name = "Split" /\ r.opset = 9

\* C20: when the caller gives an opset, that version is the working version
\* of every converter resolution whatever the model declares; when it is
\* lower than the version detected a warning is issued, and only then, and
\* the import is entered all the same.
C20_OverrideTakesPrecedence ==
    (opset_arg # None) =>
        /\ opset_pc \in {"call", "import"} =>
            /\ opset_value = opset_arg
            /\ opset_warned <=> opset_arg < FirstDefaultVersion(opset_import)
        /\ opset_pc = "select" => ENABLED opset_select
        /\ opset_pc = "call" => ENABLED g_from_onnx
        /\ opset_pc = "import" =>
            /\ g_opset = opset_arg
            /\ \A r \in resolved :
                /\ r.opset = opset_arg
                /\ r.impl = get_converter(ImplVersions(r.op_name), opset_arg)

\* The caller asked for 9 on a model that declares 13: the warning was
\* issued and converters were resolved for 9.
C20_Witness ==
    /\ opset_pc = "import"
    /\ opset_arg = 9
    /\ opset_import = <<[domain |-> "", version |-> 13]>>
    /\ opset_warned
    /\ g_opset = 9
    /\ \E r \in resolved : r.op_name = "Split" /\ r.impl = 1

\* ------------------------------------- claims on the import (continued)
\* The environment holds nothing but initializers and declared inputs.
OnlySeedBindings == \A n \in Names : _nodes[n].kind \in {"unbound", "const", "var"}

\* C22: the check for unsupported operators covers the whole graph before
\* any node is lowered: once the import has failed with the
\* unsupported-operators error no converter has been invoked and the
\* environment holds only initializers and declared inputs, and lowering is
\* only under way for a graph none of whose nodes has an unknown tag, so a
\* supported node ahead of an unsupported one is never lowered.
C22_PreCheckBeforeLowering ==
    /\ [](err = "OpNotImplemented" => (invoked = {} /\ idx = 1 /\ OnlySeedBindings))
    /\ [](pc \in {"nodes", "convert"} => UnknownTags(ops) = {})
    /\ [][(invoked' # invoked) => UnknownTags(ops) = {}]_vars

\* A graph with the initializer "a", whose first node is a supported Add and
\* whose second node has an unknown tag, has failed in the check: no
\* converter ran and only "a" is bound.
C22_Witness ==
    /\ pc = "failed" /\ err = "OpNotImplemented"
    /\ ops = <<"Add", "FooOp">>
    /\ invoked = {}
    /\ _nodes["a"].kind = "const"
    /\ _nodes["b"] = Unbound

\* C23: a declared input that is registered as a parameter, has a dimension
\* without a concrete value and is not named by the caller's shape
\* overrides has a warning issued for it.
C23_SymbolicDimensionWarned ==
    (/\ input_seen.registered
     /\ ~input_seen.in_shape
     /\ \E k \in DOMAIN input_seen.dims : input_seen.dims[k] = 0)
        => input_seen.name \in input_warnings

\* ------------------------------------- claims on the input list of a node
\* C24: reading the input list of a node at an integer index at or past its
\* length gives None; reading it at an index within it gives the value the
\* node's reference at that position is bound to, or None when that
\* reference is the empty string, and None in that case only. The list is as
\* long as the node's list of references.
C24_AbsentInputsReadAsNone ==
    /\ ix_pc # "idle" => Len(ix_inputs) = Len(ix_refs)
    /\ ix_pc = "read" =>
        IF ix_item >= Len(ix_refs)
        THEN ix_result = "None"
        ELSE /\ ix_refs[ix_item + 1] # "" => ix_result = ix_env[ix_refs[ix_item + 1]]
             /\ ix_result = "None" <=> ix_refs[ix_item + 1] = ""

\* A node with the references "a" and "" was read at index 2, past its end:
\* None came back.
C24_Witness ==
    /\ ix_pc = "read"
    /\ ix_refs = <<"a", "">>
    /\ ix_inputs = <<ix_env["a"], "None">>
    /\ ix_item = 2
    /\ ix_result = "None"

\* ------------------------------------- claims on the bridge (continued)
\* The Relay value that mirrors an input of a node.
Mirror(input) ==
    IF input.kind = "None" THEN "None"
    ELSE IF input.kind = "Constant" THEN "const" ELSE "var"

\* C25: once the inputs of a node of the Relay frontend have been adapted,
\* the list of Relay values is as long as the list of inputs and mirrors it
\* position by position: None for None, a Relay constant for a constant, a
\* Relay variable for every other input.
C25_ShadowListMirrorsInputs ==
    bpc # "idle" =>
        /\ Len(relay_inputs) = Len(relax_inputs)
        /\ \A p \in DOMAIN relax_inputs : relay_inputs[p].kind = Mirror(relax_inputs[p])

====
